---- MODULE Spec2Model ----
(***************************************************************************)
(* Model of the two React hooks of the job-application frontend:           *)
(*   useApplications    (applicant side: applyToJob mutation and its       *)
(*                       scoring sub-flow calculateAndSaveAtsScore)        *)
(*   useHRApplications  (reviewer side: fetchApplications,                 *)
(*                       updateApplicationStatus, calculateAtsScore)       *)
(* together with the backend tables they read and write and the scoring    *)
(* HTTP service.  Every `await` of the source is a suspension point: a     *)
(* call is issued when the code reaches the await, and one action per      *)
(* await models the backend executing the call, the response arriving and  *)
(* the code running on to its next await (or to its end).                  *)
(***************************************************************************)
EXTENDS Integers, Sequences, FiniteSets, TLC

(* ------------------------------------------------------------------ *)
(* Bounds of the model                                                  *)
(* ------------------------------------------------------------------ *)
\* number of applyToJob invocations (mutations) that may be started
MaxInv == 2
\* number of calls of the reviewer hook's functions that may be started
MaxHRCalls == 2

Inv == 1..MaxInv
HRCalls == 1..MaxHRCalls

(* ------------------------------------------------------------------ *)
(* Values                                                               *)
(* ------------------------------------------------------------------ *)
\* JavaScript null / SQL NULL, and JavaScript undefined (an absent key)
Null == "null"
Undefined == "undefined"

\* useAuth().user?.id : a logged-in user, or Undefined when nobody is logged in
Users == {"u1"}
\* the arguments of applyToJob calls: one without a cover letter, one with
Requests ==
  { [jobId |-> "j1", coverLetter |-> Undefined],
    [jobId |-> "j2", coverLetter |-> "Dear HR"] }

\* the resumes table of one user, in the order of uploaded_at (oldest first);
\* file_path "" is an empty stored file reference
ResumeLists ==
  { <<>>,
    << [file_path |-> "cv1.pdf"], [file_path |-> ""] >>,
    << [file_path |-> "cv1.pdf"], [file_path |-> "cv2.pdf"] >> }

\* JSON numbers as they appear in scoring responses
Numbers == {"87.5", "62.0", "0.91", "0.55"}

\* bodies the scoring service may send with a 2xx status; the code reads the
\* three keys ats_score, predicted_category and confidence and nothing else.
\* Two well-formed bodies and one that lacks the key ats_score.
ResponseBodies ==
  { [ats_score |-> "87.5", predicted_category |-> "Software Engineering", confidence |-> "0.91"],
    [ats_score |-> "62.0", predicted_category |-> "Data Science", confidence |-> "0.55"],
    [ats_score |-> Undefined, predicted_category |-> "Software Engineering", confidence |-> "0.91"] }

\* ways the scoring HTTP call can fail before a parsed body is in hand:
\* fetch rejects, the status is not 2xx, response.json() rejects
FetchFailures == {"network_error", "http_500", "bad_json"}

\* message of an error object returned by the backend client
BackendError == "backend error"

VARIABLES
  resumes,            \* backend table resumes: user -> rows, oldest first
  applicationsTable,  \* backend table applications: sequence of rows, row k has id k
  now,                \* the clock read by new Date()
  mut,                \* per applyToJob invocation: locals and react-query mutation state
  calls,              \* per applyToJob invocation: the I/O calls issued, with how each resolved
  toasts,             \* per applyToJob invocation: the notifications emitted, in order
  applications,       \* useHRApplications: the local list of applications
  loading,            \* useHRApplications: the loading flag
  error,              \* useHRApplications: the error message
  hr                  \* per call of a useHRApplications function: its locals and result

hrVars == <<applications, loading, error, hr>>
vars == <<resumes, applicationsTable, now, mut, calls, toasts, applications, loading, error, hr>>

(* ------------------------------------------------------------------ *)
(* Helpers                                                              *)
(* ------------------------------------------------------------------ *)
\* JavaScript falsiness of a string-or-nullish value
Falsy(v) == v \in {"", Null, Undefined}

\* new Date().toISOString()
ToISOString(t) == ToString(t)

\* typeof v === 'number'
IsNumber(v) == v \in Numbers

(* ------------------------------------------------------------------ *)
(* Backend operations, as the client library performs them              *)
(* ------------------------------------------------------------------ *)
\* .maybeSingle(): no row gives data null, one row gives the row, several rows
\* give data null and an error.  data is a sequence of at most one row.
MaybeSingle(rows) ==
  [data |-> IF Len(rows) = 1 THEN rows ELSE <<>>, error |-> Len(rows) > 1]

\* LatestResume ordered by uploaded_at ascending
OldestResume(rows) ==
  MaybeSingle(IF rows = <<>> THEN <<>> ELSE << rows[1] >>)

\* from('resumes').select().eq('user_id', u).order('uploaded_at', desc).limit(1).maybeSingle()
LatestResume(rows) ==
  MaybeSingle(IF rows = <<>> THEN <<>> ELSE << rows[Len(rows)] >>)

\* from('applications').select('id').eq('job_id', j).eq('user_id', u).maybeSingle()
FindApplication(table, jobId, userId) ==
  MaybeSingle(SelectSeq(table, LAMBDA r : r.job_id = jobId /\ r.user_id = userId))

\* whether the table holds an Application of the pair
HasApplication(table, jobId, userId) ==
  \E k \in DOMAIN table : table[k].job_id = jobId /\ table[k].user_id = userId

\* InsertApplication without the status key: the column takes its default
InsertApplicationNoStatus(table, jobId, userId, coverLetter) ==
  Append(table,
    [id |-> Len(table) + 1,
     job_id |-> jobId,
     user_id |-> userId,
     status |-> Null,
     cover_letter |-> IF Falsy(coverLetter) THEN Null ELSE coverLetter,
     ats_score |-> Null,
     predicted_category |-> Null,
     confidence_score |-> Null,
     ats_calculated_at |-> Null])

\* from('applications').insert({job_id, user_id, status: 'pending', cover_letter})
\* the columns the insert does not name take their defaults (NULL)
InsertApplication(table, jobId, userId, coverLetter) ==
  Append(table,
    [id |-> Len(table) + 1,
     job_id |-> jobId,
     user_id |-> userId,
     status |-> "pending",
     cover_letter |-> IF Falsy(coverLetter) THEN Null ELSE coverLetter,
     ats_score |-> Null,
     predicted_category |-> Null,
     confidence_score |-> Null,
     ats_calculated_at |-> Null])

\* one column of an update: a key whose value is undefined is dropped from the
\* JSON body, so the column keeps its value
SetColumn(old, v) == IF v = Undefined THEN old ELSE v

\* UpdateScoring that also marks the Application as reviewed
UpdateScoringMarksReviewed(table, applicationId, result, calculatedAt) ==
  [k \in DOMAIN table |->
     IF table[k].id = applicationId
     THEN [table[k] EXCEPT
             !.status = "reviewed",
             !.ats_score = SetColumn(@, result.ats_score),
             !.predicted_category = SetColumn(@, result.predicted_category),
             !.confidence_score = SetColumn(@, result.confidence),
             !.ats_calculated_at = calculatedAt]
     ELSE table[k]]

\* from('applications').update({ats_score, predicted_category, confidence_score,
\* ats_calculated_at}).eq('id', applicationId)
UpdateScoring(table, applicationId, result, calculatedAt) ==
  [k \in DOMAIN table |->
     IF table[k].id = applicationId
     THEN [table[k] EXCEPT
             !.ats_score = SetColumn(@, result.ats_score),
             !.predicted_category = SetColumn(@, result.predicted_category),
             !.confidence_score = SetColumn(@, result.confidence),
             !.ats_calculated_at = calculatedAt]
     ELSE table[k]]

(* ------------------------------------------------------------------ *)
(* useApplications: applyToJobMutation                                  *)
(* ------------------------------------------------------------------ *)
NoResult == [ats_score |-> Undefined, predicted_category |-> Undefined, confidence |-> Undefined]

\* the notifications (toast titles)
ToastResumeRequired == "Resume Required"
ToastAlreadyApplied == "Already Applied"
ToastFailed == "Application Failed"
ToastSubmitted == "Application submitted successfully!"
ToastAtsScore == "ATS Score calculated"

\* error.message.includes('already applied')
IncludesAlreadyApplied(message) == message = "You have already applied to this job!"

\* OnErrorToast whose last branch reports a duplicate
OnErrorToastNoGeneric(message) ==
  IF message = "RESUME_REQUIRED" THEN ToastResumeRequired
  ELSE ToastAlreadyApplied

\* onError: the toast chosen from the error's message
OnErrorToast(message) ==
  IF message = "RESUME_REQUIRED" THEN ToastResumeRequired
  ELSE IF IncludesAlreadyApplied(message) THEN ToastAlreadyApplied
  ELSE ToastFailed

\* ResumeRequired without the test of file_path
ResumeRequiredNoPathTest(resumeError, resumeData) ==
  resumeError \/ resumeData = <<>>

\* if (resumeError || !resumeData || !resumeData.file_path)
ResumeRequired(resumeError, resumeData) ==
  resumeError \/ resumeData = <<>> \/ Falsy(resumeData[1].file_path)

\* if (existingApplication)
AlreadyApplied(existingApplication) == existingApplication # <<>>

\* result.ats_score.toFixed(1) throws unless ats_score is a number
ToFixedThrows(result) == ~IsNumber(result.ats_score)

\* Issue that sends the request a second time
IssueTwice(cs, step) ==
  Append(Append(cs, [step |-> step, result |-> "pending"]), [step |-> step, result |-> "pending"])

\* a request is sent: the log of the invocation gets a pending entry
Issue(cs, step) == Append(cs, [step |-> step, result |-> "pending"])
Resolve(cs, result) == [cs EXCEPT ![Len(cs)].result = result]
Outcome(failed) == IF failed THEN "error" ELSE "ok"

\* mutationFn throws: the mutation ends in error and onError runs
Rejected(i, message) ==
  /\ mut' = [mut EXCEPT ![i].pc = "settled", ![i].status = "error", ![i].error = message]
  /\ toasts' = [toasts EXCEPT ![i] = Append(@, OnErrorToast(message))]

\* calculateAndSaveAtsScore has returned or thrown (the throw is caught and
\* logged); mutationFn returns applicationData and onSuccess runs
Resolved(i, scoring, scoringToasts) ==
  /\ mut' = [mut EXCEPT ![i].pc = "settled", ![i].status = "success", ![i].scoring = scoring,
                        ![i].result = NoResult, ![i].calculatedAt = Null]
  /\ toasts' = [toasts EXCEPT ![i] = @ \o scoringToasts \o <<ToastSubmitted>>]

\* a call slot of the reviewer hook before its call is made
IdleCall ==
  [op |-> "idle", pc |-> "idle", applicationId |-> 0, newStatus |-> Undefined,
   result |-> NoResult, calculatedAt |-> Null, data |-> <<>>, success |-> "none",
   filePath |-> Undefined, expiresIn |-> 0, url |-> Null,
   calls |-> <<>>]

Init ==
  /\ resumes \in [Users -> ResumeLists]
  /\ applicationsTable = <<>>
  /\ now = 1
  /\ mut = [i \in Inv |->
             [pc |-> "idle", status |-> "idle", user |-> Undefined, jobId |-> Undefined,
              coverLetter |-> Undefined, existed |-> FALSE, resumeData |-> <<>>,
              applicationId |-> 0, resumeFilePath |-> Undefined,
              result |-> NoResult, calculatedAt |-> Null, scoring |-> "none",
              error |-> ""]]
  /\ calls = [i \in Inv |-> <<>>]
  /\ toasts = [i \in Inv |-> <<>>]
  /\ applications = <<>>
  /\ loading = TRUE
  /\ error = Null
  /\ hr = [c \in HRCalls |-> IdleCall]

\* applyToJob(jobId, jobDescription, coverLetter) -> mutate -> mutationFn up to
\* its first await (the resume lookup)
\* existed records whether an Application of the pair was in the table at the call
ApplyToJob(i, user, req) ==
  /\ mut[i].pc = "idle"
  /\ \A k \in Inv : k < i => mut[k].pc # "idle"
  /\ IF user = Undefined
     THEN /\ Rejected(i, "Please log in to apply for jobs")
          /\ UNCHANGED calls
     ELSE /\ mut' = [mut EXCEPT ![i].pc = "resumeLookup", ![i].status = "pending",
                                ![i].user = user, ![i].jobId = req.jobId,
                                ![i].coverLetter = req.coverLetter,
                                ![i].existed = HasApplication(applicationsTable, req.jobId, user)]
          /\ calls' = [calls EXCEPT ![i] = Issue(@, "resumeLookup")]
          /\ UNCHANGED toasts
  /\ UNCHANGED <<resumes, applicationsTable, now, hrVars>>

\* the resume lookup resolves; on success the existence check is issued
ResumeLookupResp(i) ==
  /\ mut[i].pc = "resumeLookup"
  /\ \E failed \in BOOLEAN :
       LET r == IF failed THEN [data |-> <<>>, error |-> TRUE]
                          ELSE LatestResume(resumes[mut[i].user])
       IN IF ResumeRequired(r.error, r.data)
          THEN /\ Rejected(i, "RESUME_REQUIRED")
               /\ calls' = [calls EXCEPT ![i] = Resolve(@, Outcome(r.error))]
          ELSE /\ mut' = [mut EXCEPT ![i].pc = "existsLookup", ![i].resumeData = r.data]
               /\ calls' = [calls EXCEPT ![i] = Issue(Resolve(@, "ok"), "existsLookup")]
               /\ UNCHANGED toasts
  /\ UNCHANGED <<resumes, applicationsTable, now, hrVars>>

\* the existence check resolves; only its data is read, its error is not
ExistsLookupResp(i) ==
  /\ mut[i].pc = "existsLookup"
  /\ \E failed \in BOOLEAN :
       LET r == IF failed THEN [data |-> <<>>, error |-> TRUE]
                          ELSE FindApplication(applicationsTable, mut[i].jobId, mut[i].user)
           existingApplication == r.data
       IN IF AlreadyApplied(existingApplication)
          THEN /\ Rejected(i, "You have already applied to this job!")
               /\ calls' = [calls EXCEPT ![i] = Resolve(@, Outcome(r.error))]
          ELSE /\ mut' = [mut EXCEPT ![i].pc = "insert"]
               /\ calls' = [calls EXCEPT ![i] = Issue(Resolve(@, Outcome(r.error)), "insert")]
               /\ UNCHANGED toasts
  /\ UNCHANGED <<resumes, applicationsTable, now, hrVars>>

\* the insert resolves; on success calculateAndSaveAtsScore is entered and
\* issues the resume download
InsertResp(i) ==
  /\ mut[i].pc = "insert"
  /\ \E failed \in BOOLEAN :
       IF failed
       THEN /\ Rejected(i, BackendError)
            /\ calls' = [calls EXCEPT ![i] = Resolve(@, "error")]
            /\ UNCHANGED applicationsTable
       ELSE /\ applicationsTable' = InsertApplication(applicationsTable, mut[i].jobId,
                                                      mut[i].user, mut[i].coverLetter)
            /\ mut' = [mut EXCEPT ![i].pc = "download", ![i].coverLetter = Undefined,
                                  ![i].applicationId = Len(applicationsTable) + 1,
                                  ![i].resumeFilePath = mut[i].resumeData[1].file_path]
            /\ calls' = [calls EXCEPT ![i] = Issue(Resolve(@, "ok"), "download")]
            /\ UNCHANGED toasts
  /\ UNCHANGED <<resumes, now, hrVars>>

\* the resume download (of resumeFilePath) resolves; on success the scoring
\* HTTP call is issued
DownloadResp(i) ==
  /\ mut[i].pc = "download"
  /\ \E failed \in BOOLEAN :
       IF failed
       THEN /\ Resolved(i, "threw", <<>>)
            /\ calls' = [calls EXCEPT ![i] = Resolve(@, "error")]
       ELSE /\ mut' = [mut EXCEPT ![i].pc = "fetch"]
            /\ calls' = [calls EXCEPT ![i] = Issue(Resolve(@, "ok"), "fetch")]
            /\ UNCHANGED toasts
  /\ UNCHANGED <<resumes, applicationsTable, now, hrVars>>

\* the scoring HTTP call fails (fetch rejects, status not 2xx, or json() rejects)
FetchFail(i) ==
  /\ mut[i].pc = "fetch"
  /\ \E f \in FetchFailures :
       /\ Resolved(i, "threw", <<>>)
       /\ calls' = [calls EXCEPT ![i] = Resolve(@, "error")]
  /\ UNCHANGED <<resumes, applicationsTable, now, hrVars>>

\* the scoring HTTP call answers 2xx with a parsed body; the write-back is issued
FetchResp(i) ==
  /\ mut[i].pc = "fetch"
  /\ \E body \in ResponseBodies :
       /\ mut' = [mut EXCEPT ![i].pc = "writeBack", ![i].result = body,
                             ![i].calculatedAt = ToISOString(now)]
       /\ calls' = [calls EXCEPT ![i] = Issue(Resolve(@, "ok"), "writeBack")]
  /\ now' = now + 1
  /\ UNCHANGED <<resumes, applicationsTable, toasts, hrVars>>

\* the write-back resolves; on success the score toast is built (toFixed may
\* throw) and shown; either way the mutation then succeeds
WriteBackResp(i) ==
  /\ mut[i].pc = "writeBack"
  /\ \E failed \in BOOLEAN :
       IF failed
       THEN /\ Resolved(i, "threw", <<>>)
            /\ calls' = [calls EXCEPT ![i] = Resolve(@, "error")]
            /\ UNCHANGED applicationsTable
       ELSE /\ applicationsTable' = UpdateScoring(applicationsTable, mut[i].applicationId,
                                                  mut[i].result, mut[i].calculatedAt)
            /\ calls' = [calls EXCEPT ![i] = Resolve(@, "ok")]
            /\ IF ToFixedThrows(mut[i].result)
               THEN Resolved(i, "threw", <<>>)
               ELSE Resolved(i, "returned", <<ToastAtsScore>>)
  /\ UNCHANGED <<resumes, now, hrVars>>

(* ------------------------------------------------------------------ *)
(* useHRApplications                                                    *)
(* ------------------------------------------------------------------ *)
\* statuses a reviewer may set
NewStatuses == {"reviewed", "rejected"}

\* rpc('get_hr_applications_with_ats'): the applications joined with job,
\* applicant and resume data; the application's id is named application_id
GetHrApplicationsWithAts(table) ==
  [k \in DOMAIN table |->
     [application_id |-> table[k].id,
      job_id |-> table[k].job_id,
      user_id |-> table[k].user_id,
      status |-> table[k].status,
      cover_letter |-> table[k].cover_letter,
      ats_score |-> table[k].ats_score,
      predicted_category |-> table[k].predicted_category,
      confidence_score |-> table[k].confidence_score,
      ats_calculated_at |-> table[k].ats_calculated_at]]

\* from('applications').update({ status: newStatus }).eq('id', applicationId)
UpdateStatus(table, applicationId, newStatus) ==
  [k \in DOMAIN table |->
     IF table[k].id = applicationId
     THEN [table[k] EXCEPT !.status = newStatus]
     ELSE table[k]]

\* MapStatus without the test of application_id
MapStatusAll(prev, applicationId, newStatus) ==
  [k \in DOMAIN prev |-> [prev[k] EXCEPT !.status = newStatus]]

\* prev.map(app => app.application_id === applicationId ? {...app, status: newStatus} : app)
MapStatus(prev, applicationId, newStatus) ==
  [k \in DOMAIN prev |->
     IF prev[k].application_id = applicationId
     THEN [prev[k] EXCEPT !.status = newStatus]
     ELSE prev[k]]

\* prev.map(app => app.application_id === applicationId ? {...app, ats_score: ..., ...} : app)
MapScoring(prev, applicationId, result, calculatedAt) ==
  [k \in DOMAIN prev |->
     IF prev[k].application_id = applicationId
     THEN [prev[k] EXCEPT
             !.ats_score = result.ats_score,
             !.predicted_category = result.predicted_category,
             !.confidence_score = result.confidence,
             !.ats_calculated_at = calculatedAt]
     ELSE prev[k]]

\* slot c is the next free call slot
FreeSlot(c) ==
  /\ hr[c].op = "idle"
  /\ \A k \in HRCalls : k < c => hr[k].op # "idle"

\* the call of slot c has returned
Returned(h, success) ==
  [h EXCEPT !.pc = "done", !.success = success, !.result = NoResult,
            !.calculatedAt = Null, !.data = <<>>]

\* fetchApplications() up to its await: without a user it returns at once
FetchApplications(c, user) ==
  /\ FreeSlot(c)
  /\ IF user = Undefined
     THEN /\ hr' = [hr EXCEPT ![c] = Returned([@ EXCEPT !.op = "fetch"], "none")]
          /\ UNCHANGED <<loading, error>>
     ELSE /\ hr' = [hr EXCEPT ![c].op = "fetch", ![c].pc = "rpc",
                              ![c].calls = Issue(@, "rpc")]
          /\ loading' = TRUE
          /\ error' = Null
  /\ UNCHANGED <<resumes, applicationsTable, now, mut, calls, toasts, applications>>

\* the backend runs the rpc: the response carries the table as it is now
RpcExec(c) ==
  /\ hr[c].pc = "rpc"
  /\ hr' = [hr EXCEPT ![c].pc = "rpcSent",
                      ![c].data = GetHrApplicationsWithAts(applicationsTable)]
  /\ UNCHANGED <<resumes, applicationsTable, now, mut, calls, toasts, applications,
                 loading, error>>

\* the rpc resolves (its response arrives, or it fails)
RpcResp(c) ==
  /\ hr[c].pc \in {"rpc", "rpcSent"}
  /\ \E failed \in BOOLEAN :
       /\ failed \/ hr[c].pc = "rpcSent"
       /\ IF failed
          THEN /\ error' = BackendError
               /\ UNCHANGED applications
          ELSE /\ applications' = hr[c].data
               /\ UNCHANGED error
       /\ hr' = [hr EXCEPT ![c] = Returned([@ EXCEPT !.calls = Resolve(@, Outcome(failed))],
                                           "none")]
  /\ loading' = FALSE
  /\ UNCHANGED <<resumes, applicationsTable, now, mut, calls, toasts>>

\* updateApplicationStatus(applicationId, newStatus) up to its await
UpdateApplicationStatus(c, applicationId, newStatus) ==
  /\ FreeSlot(c)
  /\ hr' = [hr EXCEPT ![c].op = "update", ![c].pc = "update",
                      ![c].applicationId = applicationId, ![c].newStatus = newStatus,
                      ![c].calls = Issue(@, "update")]
  /\ UNCHANGED <<resumes, applicationsTable, now, mut, calls, toasts, applications,
                 loading, error>>

\* the status update resolves
UpdateResp(c) ==
  /\ hr[c].pc = "update"
  /\ \E failed \in BOOLEAN :
       IF failed
       THEN /\ hr' = [hr EXCEPT ![c] = Returned([@ EXCEPT !.calls = Resolve(@, "error")],
                                                "false")]
            /\ UNCHANGED <<applicationsTable, applications>>
       ELSE /\ applicationsTable' = UpdateStatus(applicationsTable, hr[c].applicationId,
                                                 hr[c].newStatus)
            /\ applications' = MapStatus(applications, hr[c].applicationId, hr[c].newStatus)
            /\ hr' = [hr EXCEPT ![c] = Returned([@ EXCEPT !.calls = Resolve(@, "ok")],
                                                "true")]
  /\ UNCHANGED <<resumes, now, mut, calls, toasts, loading, error>>

\* calculateAtsScore(applicationId, jobDescription, resumeFilePath) up to its
\* first await (the resume download)
CalculateAtsScore(c, applicationId) ==
  /\ FreeSlot(c)
  /\ hr' = [hr EXCEPT ![c].op = "calc", ![c].pc = "download",
                      ![c].applicationId = applicationId,
                      ![c].calls = Issue(@, "download")]
  /\ loading' = TRUE
  /\ UNCHANGED <<resumes, applicationsTable, now, mut, calls, toasts, applications, error>>

\* the resume download resolves; on success the scoring HTTP call is issued
HRDownloadResp(c) ==
  /\ hr[c].pc = "download"
  /\ \E failed \in BOOLEAN :
       IF failed
       THEN /\ hr' = [hr EXCEPT ![c] = Returned([@ EXCEPT !.calls = Resolve(@, "error")],
                                                "false")]
            /\ loading' = FALSE
       ELSE /\ hr' = [hr EXCEPT ![c].pc = "fetch",
                                ![c].calls = Issue(Resolve(@, "ok"), "fetch")]
            /\ UNCHANGED loading
  /\ UNCHANGED <<resumes, applicationsTable, now, mut, calls, toasts, applications, error>>

\* the scoring HTTP call fails (fetch rejects, status not 2xx, or json() rejects)
HRFetchFail(c) ==
  /\ hr[c].pc = "fetch"
  /\ \E f \in FetchFailures :
       hr' = [hr EXCEPT ![c] = Returned([@ EXCEPT !.calls = Resolve(@, "error")], "false")]
  /\ loading' = FALSE
  /\ UNCHANGED <<resumes, applicationsTable, now, mut, calls, toasts, applications, error>>

\* the scoring HTTP call answers 2xx with a parsed body; the write-back is issued
HRFetchResp(c) ==
  /\ hr[c].pc = "fetch"
  /\ \E body \in ResponseBodies :
       hr' = [hr EXCEPT ![c].pc = "writeBack", ![c].result = body,
                        ![c].calculatedAt = ToISOString(now),
                        ![c].calls = Issue(Resolve(@, "ok"), "writeBack")]
  /\ now' = now + 1
  /\ UNCHANGED <<resumes, applicationsTable, mut, calls, toasts, applications, loading, error>>

\* the write-back resolves; on success the local list is mapped, with a
\* timestamp read anew
HRWriteBackResp(c) ==
  /\ hr[c].pc = "writeBack"
  /\ \E failed \in BOOLEAN :
       IF failed
       THEN /\ hr' = [hr EXCEPT ![c] = Returned([@ EXCEPT !.calls = Resolve(@, "error")],
                                                "false")]
            /\ UNCHANGED <<applicationsTable, applications, now>>
       ELSE /\ applicationsTable' = UpdateScoring(applicationsTable, hr[c].applicationId,
                                                  hr[c].result, hr[c].calculatedAt)
            /\ applications' = MapScoring(applications, hr[c].applicationId, hr[c].result,
                                          ToISOString(now))
            /\ now' = now + 1
            /\ hr' = [hr EXCEPT ![c] = Returned([@ EXCEPT !.calls = Resolve(@, "ok")],
                                                "true")]
  /\ loading' = FALSE
  /\ UNCHANGED <<resumes, mut, calls, toasts, error>>

\* stored file references a reviewer may ask a download link for
FilePaths == {"", "cv1.pdf"}

\* createSignedUrl(filePath, 3600)
SignedUrlExpiry == 3600

\* ReachesStorage without the test of filePath
NoStorageGuard(filePath) == TRUE

\* if (!filePath) return null: only a non-empty reference reaches the storage
ReachesStorage(filePath) == ~Falsy(filePath)

\* getResumeDownloadUrl(filePath) up to its await: an empty reference returns
\* null at once
GetResumeDownloadUrl(c, filePath) ==
  /\ FreeSlot(c)
  /\ IF ReachesStorage(filePath)
     THEN hr' = [hr EXCEPT ![c].op = "url", ![c].pc = "signedUrl",
                           ![c].filePath = filePath, ![c].expiresIn = SignedUrlExpiry,
                           ![c].calls = Issue(@, "createSignedUrl")]
     ELSE hr' = [hr EXCEPT ![c] = Returned([@ EXCEPT !.op = "url", !.filePath = filePath],
                                           "none")]
  /\ UNCHANGED <<resumes, applicationsTable, now, mut, calls, toasts, applications,
                 loading, error>>

\* the signed-URL request resolves: data.signedUrl is returned, or the error
\* is thrown, caught and logged and null is returned
SignedUrlResp(c) ==
  /\ hr[c].pc = "signedUrl"
  /\ \E failed \in BOOLEAN :
       hr' = [hr EXCEPT ![c] = Returned([@ EXCEPT !.calls = Resolve(@, Outcome(failed)),
                                                  !.url = IF failed THEN Null ELSE "signedUrl"],
                                        "none")]
  /\ UNCHANGED <<resumes, applicationsTable, now, mut, calls, toasts, applications,
                 loading, error>>

NextHR ==
  \/ \E c \in HRCalls, u \in {Undefined, "hr1"} : FetchApplications(c, u)
  \/ \E c \in HRCalls : RpcExec(c)
  \/ \E c \in HRCalls : RpcResp(c)
  \/ \E c \in HRCalls, id \in DOMAIN applicationsTable, st \in NewStatuses :
       UpdateApplicationStatus(c, id, st)
  \/ \E c \in HRCalls : UpdateResp(c)
  \/ \E c \in HRCalls, id \in DOMAIN applicationsTable : CalculateAtsScore(c, id)
  \/ \E c \in HRCalls : HRDownloadResp(c)
  \/ \E c \in HRCalls : HRFetchFail(c)
  \/ \E c \in HRCalls : HRFetchResp(c)
  \/ \E c \in HRCalls : HRWriteBackResp(c)

NextApply ==
  \/ \E i \in Inv, u \in Users \cup {Undefined}, req \in Requests : ApplyToJob(i, u, req)
  \/ \E i \in Inv : ResumeLookupResp(i)
  \/ \E i \in Inv : ExistsLookupResp(i)
  \/ \E i \in Inv : InsertResp(i)
  \/ \E i \in Inv : DownloadResp(i)
  \/ \E i \in Inv : FetchFail(i)
  \/ \E i \in Inv : FetchResp(i)
  \/ \E i \in Inv : WriteBackResp(i)

\* invocation i has been started and has not settled
InFlight(i) == mut[i].pc \notin {"idle", "settled"}

\* the applicant submits one application at a time
OneAtATime == \A i, k \in Inv : (InFlight(i) /\ InFlight(k)) => i = k

\* the applicant is logged in and the backend answers the precondition
\* lookups and the insert without error
SubmissionSucceeds ==
  \A i \in Inv :
    /\ mut[i].status # "error"
    /\ \A k \in DOMAIN calls[i] :
         calls[i][k].step \in {"resumeLookup", "existsLookup", "insert"}
         => calls[i][k].result # "error"

\* Both hooks against the same backend.  The reviewer's calls overlap each
\* other and the applicant's in any way; the applicant's submissions are those
\* that reach the insert, taken one at a time (their races and their failures
\* are the subject of SpecApply).
Next ==
  \/ NextApply /\ OneAtATime' /\ SubmissionSucceeds'
  \/ NextHR

Spec == Init /\ [][Next]_vars

\* the applicant side alone
SpecApply == Init /\ [][NextApply]_vars

\* The reviewer opens the dashboard on a backend that already holds the
\* applications of earlier submissions: one not scored yet, one scored.
StoredApplications ==
  UpdateScoring(InsertApplication(InsertApplication(<<>>, "j1", "u1", Undefined),
                                  "j2", "u1", "Dear HR"),
                2, [ats_score |-> "62.0", predicted_category |-> "Data Science",
                    confidence |-> "0.55"], ToISOString(0))

InitReview ==
  /\ resumes = [u \in Users |-> << [file_path |-> "cv1.pdf"], [file_path |-> "cv2.pdf"] >>]
  /\ applicationsTable = StoredApplications
  /\ now = 1
  /\ mut = [i \in Inv |->
             [pc |-> "idle", status |-> "idle", user |-> Undefined, jobId |-> Undefined,
              coverLetter |-> Undefined, existed |-> FALSE, resumeData |-> <<>>,
              applicationId |-> 0, resumeFilePath |-> Undefined,
              result |-> NoResult, calculatedAt |-> Null, scoring |-> "none",
              error |-> ""]]
  /\ calls = [i \in Inv |-> <<>>]
  /\ toasts = [i \in Inv |-> <<>>]
  /\ applications = <<>>
  /\ loading = TRUE
  /\ error = Null
  /\ hr = [c \in HRCalls |-> IdleCall]

NextReview ==
  \/ NextHR
  \/ \E c \in HRCalls, filePath \in FilePaths : GetResumeDownloadUrl(c, filePath)
  \/ \E c \in HRCalls : SignedUrlResp(c)

\* the reviewer side alone, its calls overlapping in any way
SpecReview == InitReview /\ [][NextReview]_vars

\* The applicant side with the scheduling the runtime guarantees: a backend
\* call that is pending is eventually answered, and the continuation of an
\* answered await eventually runs.  Nothing obliges the resume download or the
\* scoring service to answer.
FairSpecApply ==
  /\ SpecApply
  /\ \A i \in Inv : /\ WF_vars(ResumeLookupResp(i))
                    /\ WF_vars(ExistsLookupResp(i))
                    /\ WF_vars(InsertResp(i))
                    /\ WF_vars(WriteBackResp(i))

(* ------------------------------------------------------------------ *)
(* Properties                                                           *)
(* ------------------------------------------------------------------ *)
\* the row of the table with the given id
Row(id) == applicationsTable[id]

\* the steps of calls[i] that were issued, in order
Steps(i) == [k \in DOMAIN calls[i] |-> calls[i][k].step]

\* invocation i issued the step
Issued(i, step) == \E k \in DOMAIN calls[i] : calls[i][k].step = step

\* a precondition lookup of invocation i resolved with a backend error
LookupFailed(i) ==
  \E k \in DOMAIN calls[i] :
    calls[i][k].step \in {"resumeLookup", "existsLookup"} /\ calls[i][k].result = "error"

\* the user has no resume, or the most recently uploaded one has an empty
\* file reference (stated on the table, not through the code's test)
NoStoredResume(user) ==
  \/ resumes[user] = <<>>
  \/ resumes[user][Len(resumes[user])].file_path = ""

ScoringNull(r) ==
  /\ r.ats_score = Null
  /\ r.predicted_category = Null
  /\ r.confidence_score = Null
  /\ r.ats_calculated_at = Null

\* C1: when the resume lookup of an invocation succeeds and finds no resume, or
\* one with an empty file reference, the invocation ends with the
\* RESUME_REQUIRED error and the "Resume Required" notification, the step leaves
\* the applications table as it was, and the resume lookup is the only call the
\* invocation ever issues (no existence check, no insert, no scoring step).
C1_ResumeRequiredNoSideEffects ==
  /\ [][\A i \in Inv :
          (/\ mut[i].pc = "resumeLookup"
           /\ mut'[i].pc # "resumeLookup"
           /\ calls'[i][1].result = "ok"
           /\ NoStoredResume(mut[i].user))
          => /\ mut'[i].pc = "settled"
             /\ mut'[i].status = "error"
             /\ mut'[i].error = "RESUME_REQUIRED"
             /\ toasts'[i] = <<ToastResumeRequired>>
             /\ applicationsTable' = applicationsTable]_vars
  /\ [](\A i \in Inv :
          mut[i].error = "RESUME_REQUIRED"
          => /\ mut[i].pc = "settled"
             /\ Steps(i) = <<"resumeLookup">>
             /\ mut[i].applicationId = 0
             /\ toasts[i] = <<ToastResumeRequired>>)

C1_Witness ==
  \E i \in Inv :
    /\ mut[i].pc = "settled"
    /\ mut[i].error = "RESUME_REQUIRED"
    /\ calls[i][1].result = "ok"
    /\ NoStoredResume(mut[i].user)
    /\ resumes[mut[i].user] # <<>>

\* C2: an invocation called for a pair that already has an Application inserts
\* no Application, and, its two lookups having succeeded, it ends with the
\* duplicate-application error.
C2_DuplicateRejected ==
  \A i \in Inv :
    mut[i].existed
    => /\ mut[i].applicationId = 0
       /\ ~Issued(i, "insert")
       /\ (mut[i].pc = "settled" /\ ~LookupFailed(i)
           => mut[i].error = "You have already applied to this job!")

\* C3: at most one Application per (applicant, job) pair, in every reachable state.
C3_AtMostOnePerPair ==
  \A k, l \in DOMAIN applicationsTable :
    (applicationsTable[k].user_id = applicationsTable[l].user_id
     /\ applicationsTable[k].job_id = applicationsTable[l].job_id) => k = l

\* the step resolves the insert of invocation i
InsertResolves(i) == mut[i].pc = "insert" /\ mut'[i].pc # "insert"

\* C4: an invocation inserts at most once; when its insert succeeds the table
\* grows by exactly one row, which is the invocation's Application, with status
\* pending and the four scoring fields null; no later step of the invocation
\* (whatever the scoring sub-flow does) inserts again; and an invocation whose
\* calls all succeeded is turned away only when nobody is logged in, the
\* resume is missing, or the pair has an Application.
C4_InsertsOnePendingUnscored ==
  /\ [][\A i \in Inv :
          InsertResolves(i)
          => \/ /\ calls'[i][3].result = "error"
                /\ applicationsTable' = applicationsTable
                /\ mut'[i].status = "error"
             \/ /\ calls'[i][3].result = "ok"
                /\ Len(applicationsTable') = Len(applicationsTable) + 1
                /\ SubSeq(applicationsTable', 1, Len(applicationsTable)) = applicationsTable
                /\ mut'[i].applicationId = Len(applicationsTable')
                /\ LET r == applicationsTable'[Len(applicationsTable')]
                   IN /\ r.id = mut'[i].applicationId
                      /\ r.user_id = mut[i].user
                      /\ r.job_id = mut[i].jobId
                      /\ r.status = "pending"
                      /\ ScoringNull(r)]_vars
  /\ [][Len(applicationsTable') # Len(applicationsTable)
          => \E i \in Inv : InsertResolves(i)]_vars
  /\ [](\A i \in Inv :
          /\ Cardinality({k \in DOMAIN calls[i] : calls[i][k].step = "insert"}) <= 1
          /\ (mut[i].applicationId # 0) = (Issued(i, "insert") /\ calls[i][3].result = "ok")
          /\ \A k \in Inv : (mut[i].applicationId # 0 /\ mut[i].applicationId = mut[k].applicationId)
                            => i = k
          /\ (mut[i].status = "error" /\ \A k \in DOMAIN calls[i] : calls[i][k].result = "ok")
             => \/ mut[i].user = Undefined
                \/ NoStoredResume(mut[i].user)
                \/ HasApplication(applicationsTable, mut[i].jobId, mut[i].user))

C4_Witness ==
  \E i \in Inv :
    /\ mut[i].pc = "settled"
    /\ mut[i].scoring = "threw"
    /\ ~mut[i].existed
    /\ mut[i].applicationId # 0
    /\ Row(mut[i].applicationId).status = "pending"
    /\ ScoringNull(Row(mut[i].applicationId))

\* C5: when the scoring sub-flow of an invocation fails at any step, the
\* invocation's Application has status pending and null scoring fields, and the
\* invocation ends with the submission-success outcome.
C5_ScoringFailureIsolated ==
  \A i \in Inv :
    (mut[i].pc = "settled" /\ mut[i].scoring = "threw")
    => /\ mut[i].status = "success"
       /\ toasts[i][Len(toasts[i])] = ToastSubmitted
       /\ Row(mut[i].applicationId).status = "pending"
       /\ ScoringNull(Row(mut[i].applicationId))

\* C6: in every reachable state the scoring triple of every Application is
\* entirely null or entirely non-null.
C6_ScoringTripleAllOrNone ==
  \A k \in DOMAIN applicationsTable :
    LET r == applicationsTable[k]
    IN \/ r.ats_score = Null /\ r.predicted_category = Null /\ r.confidence_score = Null
       \/ r.ats_score # Null /\ r.predicted_category # Null /\ r.confidence_score # Null

\* C7: once the insert of an invocation has succeeded, the invocation
\* eventually reports submission success.
C7_SubmissionNeverBlocked ==
  \A i \in Inv : (mut[i].applicationId # 0) ~> (mut[i].status = "success")

\* the order in which one invocation issues its calls
CallOrder == <<"resumeLookup", "existsLookup", "insert", "download", "fetch", "writeBack">>

\* C8: the calls of one invocation are issued in the fixed order, each only
\* after the one before it has resolved successfully.
C8_StrictOrder ==
  \A i \in Inv :
    /\ Len(calls[i]) <= Len(CallOrder)
    /\ Steps(i) = SubSeq(CallOrder, 1, Len(calls[i]))
    /\ \A k \in DOMAIN calls[i] : k < Len(calls[i]) => calls[i][k].result = "ok"

\* C9: an invocation one of whose precondition lookups failed with a backend
\* error issues no insert and adds no Application.
C9_LookupFailureNoInsert ==
  \A i \in Inv : LookupFailed(i) => ~Issued(i, "insert") /\ mut[i].applicationId = 0

\* C10: an invocation one of whose precondition lookups failed with a backend
\* error ends with the generic-failure notification and no other; the
\* resume-required notification is given only after a successful lookup that
\* found no resume with a non-empty file reference.
C10_LookupFailureIsGeneric ==
  \A i \in Inv :
    /\ (mut[i].pc = "settled" /\ LookupFailed(i)) => toasts[i] = <<ToastFailed>>
    /\ (\E k \in DOMAIN toasts[i] : toasts[i][k] = ToastResumeRequired)
       => (calls[i][1].result = "ok" /\ NoStoredResume(mut[i].user))

\* the four scoring fields of a row of the table
Scoring(r) == <<r.ats_score, r.predicted_category, r.confidence_score, r.ats_calculated_at>>

\* the row holds a complete score
Scored(r) == \A f \in 1..4 : Scoring(r)[f] # Null

\* the four scoring fields one scoring response and its timestamp stand for
ScoringOf(result, calculatedAt) ==
  <<result.ats_score, result.predicted_category, result.confidence, calculatedAt>>

\* C11: a step on an Application that holds a complete score either leaves its
\* four scoring fields exactly as they were, or is the write-back of a scoring
\* invocation on that Application that succeeds and after which the four fields
\* are those of that invocation's single response (score, category, confidence,
\* timestamp); no field of the previous score remains and a failing invocation
\* changes none.
C11_RescoreAllOrNothing ==
  [][\A id \in DOMAIN applicationsTable :
       Scored(Row(id)) =>
         \/ Scoring(applicationsTable'[id]) = Scoring(Row(id))
         \/ \E i \in Inv :
              /\ mut[i].pc = "writeBack"
              /\ mut[i].applicationId = id
              /\ mut'[i].scoring = "returned"
              /\ Scoring(applicationsTable'[id]) = ScoringOf(mut[i].result, mut[i].calculatedAt)
         \/ \E c \in HRCalls :
              /\ hr[c].pc = "writeBack"
              /\ hr[c].applicationId = id
              /\ hr'[c].success = "true"
              /\ Scoring(applicationsTable'[id]) = ScoringOf(hr[c].result, hr[c].calculatedAt)]_vars

\* the fields of a row that are neither its status nor a scoring field
Identity(r) == <<r.id, r.job_id, r.user_id, r.cover_letter>>

Count(seq, set) == Cardinality({k \in DOMAIN seq : seq[k] \in set})

\* the notifications that report the outcome of a submission
SubmissionToasts == {ToastResumeRequired, ToastAlreadyApplied, ToastFailed, ToastSubmitted}

\* the scoring write-back of invocation i was answered without error
WriteBackSucceeded(i) ==
  \E k \in DOMAIN calls[i] : calls[i][k].step = "writeBack" /\ calls[i][k].result = "ok"

\* C13: an applyToJob invocation that has terminated has emitted exactly one
\* of the submission-outcome notifications (resume required, already applied,
\* failed, submitted), and has emitted the scoring-complete notification
\* exactly once if its scoring write-back succeeded and not at all otherwise.
C13_OneNotificationPerOutcome ==
  \A i \in Inv :
    mut[i].pc = "settled"
    => /\ Count(toasts[i], SubmissionToasts) = 1
       /\ Count(toasts[i], {ToastAtsScore}) = IF WriteBackSucceeded(i) THEN 1 ELSE 0

\* the insert of invocation i was answered with an error
InsertFailed(i) ==
  \E k \in DOMAIN calls[i] : calls[i][k].step = "insert" /\ calls[i][k].result = "error"

\* C14: an invocation whose insert failed has terminated in error with the
\* generic-failure notification and no other, holds no Application id, and
\* issued nothing after the insert (no download, no scoring call, no
\* write-back); and every row of the table is the Application of an invocation
\* whose insert succeeded, so the failed invocation has left no record.
C14_InsertFailureIsFatal ==
  /\ \A i \in Inv :
       InsertFailed(i)
       => /\ mut[i].pc = "settled"
          /\ mut[i].status = "error"
          /\ mut[i].applicationId = 0
          /\ toasts[i] = <<ToastFailed>>
          /\ Steps(i) = <<"resumeLookup", "existsLookup", "insert">>
  /\ \A id \in DOMAIN applicationsTable :
       \E i \in Inv : mut[i].applicationId = id /\ ~InsertFailed(i)
  /\ Len(applicationsTable) = Cardinality({i \in Inv : mut[i].applicationId # 0})

\* an insert failed after another invocation's insert had succeeded
C14_Witness ==
  \E i, k \in Inv :
    /\ InsertFailed(i)
    /\ mut[i].pc = "settled"
    /\ mut[k].applicationId # 0

\* the resume lookup of invocation i has been answered
ResumeLookupDone(i) == calls[i] # <<>> /\ calls[i][1].result # "pending"

\* invocation i went past precondition 1
PassedResumeCheck(i) == Len(calls[i]) >= 2

\* the user has some resume on file with a non-empty file reference
HasUsableResume(user) ==
  \E k \in DOMAIN resumes[user] : resumes[user][k].file_path # ""

\* C15 as stated: an invocation whose resume lookup succeeded for an applicant
\* with at least one resume with a non-empty file reference passes
\* precondition 1, whatever the applicant's other resumes are; and the file
\* reference handed to the scoring sub-flow is that of the most recently
\* uploaded resume.
C15_AnyResumeSuffices ==
  \A i \in Inv :
    /\ (ResumeLookupDone(i) /\ calls[i][1].result = "ok" /\ HasUsableResume(mut[i].user))
       => PassedResumeCheck(i) /\ mut[i].error # "RESUME_REQUIRED"
    /\ Issued(i, "download")
       => mut[i].resumeFilePath = resumes[mut[i].user][Len(resumes[mut[i].user])].file_path

\* C15, amended: an invocation whose resume lookup has been answered passes
\* precondition 1 exactly when the lookup succeeded and the applicant's most
\* recently uploaded resume has a non-empty file reference (older resumes are
\* not considered); and the file reference handed to the scoring sub-flow is
\* the non-empty one of the most recently uploaded resume.
C15_LatestResumeDecides ==
  \A i \in Inv :
    /\ ResumeLookupDone(i)
       => (PassedResumeCheck(i)
           <=> (calls[i][1].result = "ok" /\ ~NoStoredResume(mut[i].user)))
    /\ Issued(i, "download")
       => /\ mut[i].resumeFilePath = resumes[mut[i].user][Len(resumes[mut[i].user])].file_path
          /\ mut[i].resumeFilePath # ""

\* an applicant with an older usable resume and a latest one without file
\* reference has been turned away
C15_Witness ==
  \E i \in Inv :
    /\ ResumeLookupDone(i)
    /\ calls[i][1].result = "ok"
    /\ HasUsableResume(mut[i].user)
    /\ NoStoredResume(mut[i].user)
    /\ mut[i].pc = "settled"
    /\ mut[i].error = "RESUME_REQUIRED"

\* C16: a getResumeDownloadUrl call with an empty file reference has returned
\* null and has issued no storage call; a call with a non-empty reference has
\* issued exactly one call, a signed-URL request with an expiry of 3600
\* seconds, and when that request failed the call has returned null (it does
\* not throw); when it succeeded the call has returned the signed URL.
C16_DownloadUrl ==
  \A c \in HRCalls :
    hr[c].op = "url"
    => IF hr[c].filePath = ""
       THEN /\ hr[c].pc = "done"
            /\ hr[c].calls = <<>>
            /\ hr[c].url = Null
       ELSE /\ [k \in DOMAIN hr[c].calls |-> hr[c].calls[k].step] = <<"createSignedUrl">>
            /\ hr[c].expiresIn = 3600
            /\ hr[c].calls[1].result = "error" => (hr[c].pc = "done" /\ hr[c].url = Null)
            /\ hr[c].calls[1].result = "ok" => (hr[c].pc = "done" /\ hr[c].url = "signedUrl")
            /\ hr[c].calls[1].result = "pending" => hr[c].pc = "signedUrl"

\* one call with an empty reference has returned, and one whose signed-URL
\* request failed
C16_Witness ==
  \E c, d \in HRCalls :
    /\ hr[c].op = "url" /\ hr[c].filePath = "" /\ hr[c].pc = "done"
    /\ hr[d].op = "url" /\ hr[d].filePath # "" /\ hr[d].pc = "done"
    /\ hr[d].calls[1].result = "error"

\* the position of the first notification t in seq (0 when there is none)
IndexOf(seq, t) ==
  IF \E k \in DOMAIN seq : seq[k] = t
  THEN CHOOSE k \in DOMAIN seq : seq[k] = t /\ \A j \in 1..(k - 1) : seq[j] # t
  ELSE 0

\* C17: in an invocation that emitted both the submission-success and the
\* scoring-complete notification, the submission-success notification comes
\* first.
C17_SubmittedBeforeScore ==
  \A i \in Inv :
    (IndexOf(toasts[i], ToastSubmitted) # 0 /\ IndexOf(toasts[i], ToastAtsScore) # 0)
    => IndexOf(toasts[i], ToastSubmitted) < IndexOf(toasts[i], ToastAtsScore)

\* the steps of a scoring sub-flow, in the order of the code
ScoringSteps == <<"download", "fetch", "writeBack">>

\* the scoring steps in a log of calls
ScoringCalls(cs) == SelectSeq(cs, LAMBDA e : e.step \in {"download", "fetch", "writeBack"})

\* the scoring steps of a log are a prefix of download, scoring call,
\* write-back, each issued once and only after the one before it succeeded
Gated(cs) ==
  LET sc == ScoringCalls(cs)
  IN /\ Len(sc) <= 3
     /\ \A k \in DOMAIN sc :
          /\ sc[k].step = ScoringSteps[k]
          /\ k < Len(sc) => sc[k].result = "ok"

C19_UpdateStatusFrame ==
  /\ [][\A c \in HRCalls :
          (hr[c].pc = "update" /\ hr'[c].pc # "update")
          => /\ hr'[c].pc = "done"
             /\ loading' = loading
             /\ error' = error
             /\ IF hr'[c].calls[1].result = "error"
                THEN /\ hr'[c].success = "false"
                     /\ applications' = applications
                ELSE /\ hr'[c].success = "true"
                     /\ DOMAIN applications' = DOMAIN applications
                     /\ \A k \in DOMAIN applications :
                          IF applications[k].application_id = hr[c].applicationId
                          THEN applications'[k] =
                                 [applications[k] EXCEPT !.status = hr[c].newStatus]
                          ELSE applications'[k] = applications[k]]_vars
  /\ [](\A c \in HRCalls :
          (hr[c].op = "update" /\ hr[c].pc = "done") => hr[c].success \in {"true", "false"})

\* a status update has succeeded on a loaded list of two entries while
\* another call had set loading
C19_Witness ==
  \E c \in HRCalls :
    /\ hr[c].op = "update" /\ hr[c].pc = "done" /\ hr[c].success = "true"
    /\ Len(applications) = 2
    /\ \E k, j \in DOMAIN applications :
         /\ applications[k].application_id = hr[c].applicationId
         /\ applications[k].status = hr[c].newStatus
         /\ applications[j].status = "pending"

\* C20: the step in which a calculateAtsScore call ends, ends it with a
\* returned value (it does not throw) and with loading false.  When a step of
\* the call failed the value is success=false and the local list is unchanged.
\* When all steps succeeded the value is success=true and every local entry of
\* the Application carries the ats_score, predicted_category and
\* confidence_score that the Application has in the backend after the
\* write-back.
C20_CalculateAtsScoreOutcome ==
  [][\A c \in HRCalls :
       (hr[c].op = "calc" /\ hr[c].pc # "done" /\ hr'[c].pc = "done")
       => /\ loading' = FALSE
          /\ IF hr'[c].calls[Len(hr'[c].calls)].result = "error"
             THEN /\ hr'[c].success = "false"
                  /\ applications' = applications
             ELSE /\ hr'[c].success = "true"
                  /\ \A k \in DOMAIN applications' :
                       applications'[k].application_id = hr[c].applicationId
                       => LET row == applicationsTable'[hr[c].applicationId]
                          IN /\ applications'[k].ats_score = row.ats_score
                             /\ applications'[k].predicted_category = row.predicted_category
                             /\ applications'[k].confidence_score = row.confidence_score]_vars

\* call c of the reviewer hook is a fetchApplications or a calculateAtsScore
\* call that has been made and has not returned
LoadingCallInFlight(c) ==
  /\ hr[c].op \in {"fetch", "calc"}
  /\ hr[c].pc \notin {"idle", "done"}

\* C21: in every state in which a fetchApplications call or a
\* calculateAtsScore call is in flight, loading is true (so loading is false
\* only when none is in flight), however the calls overlap.
C21_LoadingWhileInFlight ==
  (\E c \in HRCalls : LoadingCallInFlight(c)) => loading = TRUE

\* no call of the reviewer hook is in flight, and every updateApplicationStatus
\* and calculateAtsScore call that was made has succeeded
AllCompleted ==
  \A c \in HRCalls :
    /\ hr[c].pc \in {"idle", "done"}
    /\ hr[c].op \in {"update", "calc"} => hr[c].success = "true"

\* C22: when no call of the hook is in flight (and the status updates and
\* score calculations made through it have succeeded), every entry of the
\* local list has the status and the four scoring fields of the backend
\* Application with its application_id, however the calls were interleaved.
C22_LocalListMatchesBackend ==
  AllCompleted
  => \A k \in DOMAIN applications :
       LET row == Row(applications[k].application_id)
       IN /\ applications[k].status = row.status
          /\ applications[k].ats_score = row.ats_score
          /\ applications[k].predicted_category = row.predicted_category
          /\ applications[k].confidence_score = row.confidence_score
          /\ applications[k].ats_calculated_at = row.ats_calculated_at

====
